---- MODULE Spec2Model ----
(***************************************************************************)
(* MinimalBotRunner (src/main.py): a supervisor that runs each configured  *)
(* bot file as a child process on its own executor thread, restarts it     *)
(* after abnormal exits with a linear backoff, watches its memory, and     *)
(* stops every registered process on SIGINT/SIGTERM.                       *)
(*                                                                         *)
(* Threads of the model: one supervision path per bot (run_single_bot),    *)
(* one memory watchdog per process instance (memory_check), the main       *)
(* thread (run), and the signal handlers, which Python runs on the main    *)
(* thread on top of whatever the main thread was doing.  The child         *)
(* processes are the environment.                                          *)
(***************************************************************************)
EXTENDS Integers, Sequences, FiniteSets, TLC

\* ---------------------------------------------------------------- constants
MAX_RESTARTS == 5
RESTART_DELAY == 10
MEMORY_LIMIT_MB == 400

\* ------------------------------------------------------------------- bounds
\* Signals (SIGINT/SIGTERM) delivered during one execution.
MaxSignals == 2
\* Abnormal exits (status 137) the bot programs make in total in the
\* executions that also receive signals or exceed the memory ceiling.
MaxCrashes == 1
\* Memory samples above the ceiling in one execution.
MaxOvers == 1
\* Lines the bot programs write to their output pipes in one execution.
MaxLines == 1

\* The bot files a runner is constructed with: at most two, named 1 and 2.
AllBots == {1, 2}

\* Exit statuses a bot program may end with on its own accord: success, the
\* shell-style interrupted/terminated statuses and a failure status.
VoluntaryCodes == {0, 130, 143, 137}
\* Popen.returncode of a child ended by SIGTERM / SIGKILL.
SIGTERM_CODE == 0 - 15
SIGKILL_CODE == 0 - 9
\* Resident-memory samples (MB) around the ceiling.
MemorySamples == {MEMORY_LIMIT_MB, MEMORY_LIMIT_MB + 1}
\* The two pipes of a child (stdout=PIPE, stderr=PIPE).
Streams == {"stdout", "stderr"}

VARIABLES
    bot_files,          \* self.bot_files: the set of configured bots
    budget,             \* what the environment may still do: abnormal exits of
                        \* the bot programs, signals, samples above the ceiling
    shutdown_requested, \* self.shutdown_requested
    current_processes,  \* self.current_processes: the entries [key, process] of
                        \* the dict in insertion order, process an instance number
    procs,              \* bot -> sequence of Popen objects, one per spawn
    pc,                 \* bot -> position of its supervision path
    restart_count,      \* bot -> local restart_count of run_single_bot
    exit_code,          \* bot -> local exit_code of run_single_bot
    delay,              \* bot -> local delay of run_single_bot
    steps,              \* bot -> iterations of `for _ in range(delay)` begun
    wd,                 \* bot -> sequence of watchdog threads, one per spawn
    pump,               \* bot -> sequence, one per spawn, of the two output
                        \* pipes of the child and their reader threads
    main,               \* the main thread inside run()
    frames,             \* stop_all_processes activations on the main thread
    hist                \* history (ghost) variables read by the properties

vars == <<bot_files, budget, shutdown_requested, current_processes, procs, pc,
          restart_count, exit_code, delay, steps, wd, pump, main, frames, hist>>

\* ------------------------------------------------------------------ helpers
Last(s) == s[Len(s)]
SetLast(s, v) == [s EXCEPT ![Len(s)] = v]

\* A Popen object: alive is what poll() observes (poll() is None), returncode
\* is <<>> while running and <<code>> afterwards, term/kill record a pending
\* SIGTERM/SIGKILL.
NewProcess == [alive |-> TRUE, returncode |-> <<>>, term |-> FALSE, kill |-> FALSE]

\* process.poll() is None
Running(b, k) == procs[b][k].alive

\* One output pipe of a child with the thread that reads it: the lines
\* written and not read yet, and the position of the reader.
NewPump == [s \in Streams |-> [pc |-> "none", pipe |-> 0]]

MutBound(b, k) == Len(procs[b])
\* The `process` that the closures read_stdout, read_stderr and memory_check
\* of a worker's k-th spawn refer to: the Popen object passed to
\* monitor_output and monitor_memory (lines 106, 135), that is, the k-th one.
Bound(b, k) == k

\* History kept per process instance (hist.proc[b][k]).
NewHist == [stopTerms |-> 0,      \* terminate() calls made by stop_process
            wdTerms |-> 0,        \* terminate() calls made by the watchdog
            kills |-> 0,          \* kill() calls made by stop_process
            timedOut |-> FALSE,   \* a wait(timeout=10) on it has timed out
            samples |-> 0,        \* memory samples taken since the trigger
            over |-> FALSE,       \* a sample exceeded the ceiling
            attempt |-> 0,        \* restart_count at the spawn
            sleeps |-> 0,         \* backoff sleep steps finished before the spawn
            afterShutdown |-> FALSE, \* spawned with shutdown_requested set
            stale |-> FALSE]      \* spawned while the watchdog of an earlier
                                  \* process of the worker was asleep

\* self.current_processes as a dict: the keys in insertion order, the value
\* of a key (0 for .get() of a missing key), assignment and deletion.
Keys(d) == [i \in DOMAIN d |-> d[i].key]
Get(d, b) == IF \E i \in DOMAIN d : d[i].key = b
             THEN d[CHOOSE i \in DOMAIN d : d[i].key = b].process
             ELSE 0
Put(d, b, k) == IF \E i \in DOMAIN d : d[i].key = b
                THEN [i \in DOMAIN d |-> IF d[i].key = b THEN [key |-> b, process |-> k]
                                         ELSE d[i]]
                ELSE Append(d, [key |-> b, process |-> k])
Del(d, b) == SelectSeq(d, LAMBDA e : e.key # b)

\* ------------------------------------------------------- child processes
\* The statuses a running child can end with now: its own statuses at any
\* time, -15 once a SIGTERM is pending and -9 once a SIGKILL is pending.
ExitChoices(p) ==
    VoluntaryCodes \cup (IF p.term THEN {SIGTERM_CODE} ELSE {})
                   \cup (IF p.kill THEN {SIGKILL_CODE} ELSE {})

MutIsSuccess(c) == c = 1
\* exit_code == 0 (line 182)
IsSuccess(c) == c = 0
\* exit_code in [130, 143, -15] (line 185)
IsManualStop(c) == c \in {130, 143, SIGTERM_CODE}

\* The child of bot b's instance k ends with status c.
ProcessExit(b, k, c) ==
    /\ b \in bot_files
    /\ k \in 1..Len(procs[b])
    /\ procs[b][k].alive
    /\ c \in ExitChoices(procs[b][k])
    /\ c = 137 => budget.crashes > 0
    /\ budget' = IF c = 137 THEN [budget EXCEPT !.crashes = @ - 1] ELSE budget
    /\ procs' = [procs EXCEPT ![b][k] =
                    [alive |-> FALSE, returncode |-> <<c>>, term |-> FALSE, kill |-> FALSE]]
    /\ UNCHANGED <<bot_files, shutdown_requested, current_processes, pc, restart_count,
                   exit_code, delay, steps, wd, pump, main, frames, hist>>

\* Popen.terminate() / Popen.kill(): no effect on a child that has ended.
Terminated(p) == IF p.alive THEN [p EXCEPT !.term = TRUE] ELSE p
Killed(p) == IF p.alive THEN [p EXCEPT !.kill = TRUE] ELSE p

\* ------------------------------------------- run_single_bot (lines 157-199)
MutLoopCondition(b) == ~shutdown_requested /\ restart_count[b] <= MAX_RESTARTS
\* while not self.shutdown_requested and restart_count < self.MAX_RESTARTS
LoopCondition(b) == ~shutdown_requested /\ restart_count[b] < MAX_RESTARTS

MutBackoffDelay(k) == RESTART_DELAY
\* delay = self.RESTART_DELAY * restart_count (line 191)
BackoffDelay(k) == RESTART_DELAY * k

\* Line 162: the loop test; leaving the loop ends the supervision path.
LoopCheck(b) ==
    /\ pc[b] = "loop"
    /\ pc' = [pc EXCEPT ![b] = IF LoopCondition(b) THEN "start" ELSE "stopped"]
    /\ UNCHANGED <<bot_files, budget, shutdown_requested, current_processes, procs,
                   restart_count, exit_code, delay, steps, wd, pump, main, frames, hist>>

MutAfterSpawn == "monitor"
\* Line 169 follows a successful start_process: the process is registered
\* before anything else is done with it.
AfterSpawn == "register"

MutAfterSpawnFailure == "loop"
\* if not process: ... break (lines 166-167): the loop is left and
\* run_single_bot returns.
AfterSpawnFailure == "stopped"

\* Lines 165-167 with start_process (78-104): the file is missing or Popen
\* raises (ok = FALSE) and the path breaks out of the loop, or a child starts.
StartProcess(b) ==
    /\ pc[b] = "start"
    /\ \E ok \in BOOLEAN :
        IF ok
        THEN /\ procs' = [procs EXCEPT ![b] = Append(@, NewProcess)]
             /\ wd' = [wd EXCEPT ![b] = Append(@, "none")]
             /\ pump' = [pump EXCEPT ![b] = Append(@, NewPump)]
             /\ hist' = [hist EXCEPT !.proc[b] = Append(@,
                            [NewHist EXCEPT !.attempt = restart_count[b],
                                            !.sleeps = hist.slept[b],
                                            !.afterShutdown = shutdown_requested,
                                            !.stale = \E k \in DOMAIN wd[b] :
                                                wd[b][k] = "check"]),
                                     !.slept[b] = 0]
             /\ pc' = [pc EXCEPT ![b] = AfterSpawn]
        ELSE /\ pc' = [pc EXCEPT ![b] = AfterSpawnFailure]
             /\ UNCHANGED <<procs, wd, pump, hist>>
    /\ UNCHANGED <<bot_files, budget, shutdown_requested, current_processes,
                   restart_count, exit_code, delay, steps, main, frames>>

\* Line 169: self.current_processes[str(file_path)] = process
Register(b) ==
    /\ pc[b] = "register"
    /\ current_processes' = Put(current_processes, b, Len(procs[b]))
    /\ pc' = [pc EXCEPT ![b] = "monitor"]
    /\ UNCHANGED <<bot_files, budget, shutdown_requested, procs, restart_count,
                   exit_code, delay, steps, wd, pump, main, frames, hist>>

MutAfterMonitors == "loop"
\* Lines 175-176: with the monitors started, the path blocks in
\* process.wait() before anything else.
AfterMonitors == "wait"

\* Lines 172-173: monitor_output and monitor_memory start their daemon
\* threads: the two readers begin at their loop test, the watchdog thread
\* at psutil.Process(process.pid).
StartMonitors(b) ==
    /\ pc[b] = "monitor"
    /\ pump' = [pump EXCEPT ![b] = SetLast(@,
                    [s \in Streams |-> [Last(pump[b])[s] EXCEPT !.pc = "check"]])]
    /\ wd' = [wd EXCEPT ![b] = SetLast(@, "check")]
    /\ pc' = [pc EXCEPT ![b] = AfterMonitors]
    /\ UNCHANGED <<bot_files, budget, shutdown_requested, current_processes, procs,
                   restart_count, exit_code, delay, steps, main, frames, hist>>

\* Line 176: exit_code = process.wait() returns once the child has ended.
Wait(b) ==
    /\ pc[b] = "wait"
    /\ ~Running(b, Len(procs[b]))
    /\ exit_code' = [exit_code EXCEPT ![b] = Last(procs[b]).returncode]
    /\ pc' = [pc EXCEPT ![b] = "evaluate"]
    /\ UNCHANGED <<bot_files, budget, shutdown_requested, current_processes, procs,
                   restart_count, delay, steps, wd, pump, main, frames, hist>>

\* Lines 182-199: the restart decision.
Evaluate(b) ==
    /\ pc[b] = "evaluate"
    /\ LET c == exit_code[b][1] IN
       IF IsSuccess(c) \/ IsManualStop(c)
       THEN /\ pc' = [pc EXCEPT ![b] = "stopped"]
            /\ UNCHANGED <<restart_count, delay, steps>>
       ELSE /\ restart_count' = [restart_count EXCEPT ![b] = @ + 1]
            /\ IF restart_count'[b] < MAX_RESTARTS
               THEN /\ delay' = [delay EXCEPT ![b] = BackoffDelay(restart_count'[b])]
                    /\ steps' = [steps EXCEPT ![b] = 0]
                    /\ pc' = [pc EXCEPT ![b] = "backoff"]
               ELSE /\ pc' = [pc EXCEPT ![b] = "loop"]
                    /\ UNCHANGED <<delay, steps>>
    /\ exit_code' = [exit_code EXCEPT ![b] = <<>>]
    /\ UNCHANGED <<bot_files, budget, shutdown_requested, current_processes, procs,
                   wd, pump, main, frames, hist>>

MutBackoffInterrupted == FALSE
\* if self.shutdown_requested: return (lines 195-196)
BackoffInterrupted == shutdown_requested

\* Lines 194-196: the next iteration of `for _ in range(delay)`: the loop is
\* exhausted, or shutdown is seen and the path returns, or a sleep begins.
BackoffCheck(b) ==
    /\ pc[b] = "backoff"
    /\ pc' = [pc EXCEPT ![b] = IF steps[b] >= delay[b] THEN "loop"
                               ELSE IF BackoffInterrupted THEN "stopped"
                               ELSE "sleep"]
    /\ UNCHANGED <<bot_files, budget, shutdown_requested, current_processes, procs,
                   restart_count, exit_code, delay, steps, wd, pump, main, frames, hist>>

\* Line 197: time.sleep(1) ends.
BackoffSleep(b) ==
    /\ pc[b] = "sleep"
    /\ steps' = [steps EXCEPT ![b] = @ + 1]
    /\ pc' = [pc EXCEPT ![b] = "backoff"]
    /\ hist' = [hist EXCEPT !.slept[b] = @ + 1,
                            !.lateSleeps[b] = IF shutdown_requested THEN @ + 1 ELSE @]
    /\ UNCHANGED <<bot_files, budget, shutdown_requested, current_processes, procs,
                   restart_count, exit_code, delay, wd, pump, main, frames>>

\* --------------------------------------------- memory_check (lines 139-153)
MutOverLimit(m) == m >= MEMORY_LIMIT_MB
\* memory_mb > self.MEMORY_LIMIT_MB (line 145)
OverLimit(m) == m > MEMORY_LIMIT_MB

\* process.poll() is None and not self.shutdown_requested (line 142)
WatchCondition(b, k) == Running(b, k) /\ ~shutdown_requested

\* Lines 141-142 on entry, and lines 149 and 142 after a sample: the sleep of
\* 30 seconds ends and the loop test is made.  psutil.Process of a child
\* that is gone raises and a false loop test ends the thread.
WatchdogCheck(b, k) ==
    /\ wd[b][k] = "check"
    /\ wd' = [wd EXCEPT ![b][k] = IF WatchCondition(b, Bound(b, k)) THEN "sample"
                                   ELSE "done"]
    /\ UNCHANGED <<bot_files, budget, shutdown_requested, current_processes, procs, pc,
                   restart_count, exit_code, delay, steps, pump, main, frames, hist>>

\* Lines 144-149: one sample; memory_info() of a child that is gone raises
\* and ends the thread (line 150).
WatchdogSample(b, k) ==
    /\ wd[b][k] = "sample"
    /\ IF ~Running(b, Bound(b, k))
       THEN /\ wd' = [wd EXCEPT ![b][k] = "done"]
            /\ UNCHANGED <<hist, budget>>
       ELSE \E m \in MemorySamples :
            /\ m > MEMORY_LIMIT_MB => budget.overs > 0
            /\ budget' = IF m > MEMORY_LIMIT_MB THEN [budget EXCEPT !.overs = @ - 1]
                         ELSE budget
            /\ wd' = [wd EXCEPT ![b][k] = IF OverLimit(m) THEN "terminate" ELSE "check"]
            /\ hist' = [hist EXCEPT
                    !.proc[b][Bound(b, k)].samples =
                        IF hist.proc[b][Bound(b, k)].over THEN @ + 1 ELSE @,
                    !.proc[b][Bound(b, k)].over = @ \/ m > MEMORY_LIMIT_MB]
    /\ UNCHANGED <<bot_files, shutdown_requested, current_processes, procs, pc,
                   restart_count, exit_code, delay, steps, pump, main, frames>>

\* Lines 147-148: process.terminate(); break
WatchdogTerminate(b, k) ==
    /\ wd[b][k] = "terminate"
    /\ procs' = [procs EXCEPT ![b][Bound(b, k)] = Terminated(@)]
    /\ hist' = [hist EXCEPT !.proc[b][Bound(b, k)].wdTerms = @ + 1]
    /\ wd' = [wd EXCEPT ![b][k] = "done"]
    /\ UNCHANGED <<bot_files, budget, shutdown_requested, current_processes, pc,
                   restart_count, exit_code, delay, steps, pump, main, frames>>

\* ------------------------------------- monitor_output (lines 106-133)
\* The child writes a line to one of its pipes.
Write(b, k, s) ==
    /\ b \in bot_files
    /\ k \in DOMAIN procs[b]
    /\ procs[b][k].alive
    /\ budget.lines > 0
    /\ budget' = [budget EXCEPT !.lines = @ - 1]
    /\ pump' = [pump EXCEPT ![b][k][s].pipe = @ + 1]
    /\ UNCHANGED <<bot_files, shutdown_requested, current_processes, procs, pc,
                   restart_count, exit_code, delay, steps, wd, main, frames, hist>>

\* Lines 111 and 120: the loop test of read_stdout / read_stderr.
ReaderCheck(b, k, s) ==
    /\ pump[b][k][s].pc = "check"
    /\ pump' = [pump EXCEPT ![b][k][s].pc =
                    IF WatchCondition(b, Bound(b, k)) THEN "read" ELSE "done"]
    /\ UNCHANGED <<bot_files, budget, shutdown_requested, current_processes, procs, pc,
                   restart_count, exit_code, delay, steps, wd, main, frames, hist>>

\* Lines 113-115 and 122-128: readline() returns a line of the pipe, which is
\* logged, or the end of file of the pipe of a child that has ended; it
\* blocks meanwhile.  A line that cannot be decoded raises, and the bare
\* `except` ends the thread (lines 116-117, 129-130).
ReaderRead(b, k, s) ==
    /\ pump[b][k][s].pc = "read"
    /\ LET j == Bound(b, k) IN
       \/ /\ pump[b][j][s].pipe > 0
          /\ \E decoded \in BOOLEAN :
                pump' = [pump EXCEPT ![b][j][s].pipe = @ - 1,
                                     ![b][k][s].pc = IF decoded THEN "check" ELSE "done"]
       \/ /\ pump[b][j][s].pipe = 0
          /\ ~Running(b, j)
          /\ pump' = [pump EXCEPT ![b][k][s].pc = "check"]
    /\ UNCHANGED <<bot_files, budget, shutdown_requested, current_processes, procs, pc,
                   restart_count, exit_code, delay, steps, wd, main, frames, hist>>

\* ------------------------------------------------------ the main thread
\* The bots of a set in list order.
RECURSIVE InOrder(_)
InOrder(S) == IF S = {} THEN <<>>
              ELSE LET m == CHOOSE x \in S : \A y \in S : x <= y
                   IN  <<m>> \o InOrder(S \ {m})

\* The main thread runs run()'s own code only while no handler is on top.
MainRuns == frames = <<>>

MutValidFiles(existing) == bot_files
\* Lines 229-235: valid_files collects the bot files whose path exists.
ValidFiles(existing) == {f \in bot_files : f \in existing}

\* Lines 227-239: keep the files that exist (`existing` is what the file
\* system holds at that moment); with none, run() returns.
Validate ==
    /\ MainRuns
    /\ main.pc = "validate"
    /\ \E existing \in SUBSET bot_files :
        /\ main' = [main EXCEPT !.valid_files = ValidFiles(existing),
                                !.todo = InOrder(ValidFiles(existing)),
                                !.pc = IF ValidFiles(existing) = {} THEN "returned"
                                       ELSE "submit"]
        /\ hist' = [hist EXCEPT !.missing = bot_files \ existing]
    /\ UNCHANGED <<bot_files, budget, shutdown_requested, current_processes, procs, pc,
                   restart_count, exit_code, delay, steps, wd, pump, frames>>

\* Lines 244-246: executor.submit starts run_single_bot on a thread of its
\* own; a submit that raises (ok = FALSE) goes to `except` and `finally`.
Submit ==
    /\ MainRuns
    /\ main.pc = "submit"
    /\ IF main.todo = <<>>
       THEN /\ main' = [main EXCEPT !.pc = "result", !.todo = InOrder(main.futures)]
            /\ UNCHANGED pc
       ELSE \E ok \in BOOLEAN :
            IF ok
            THEN /\ pc' = [pc EXCEPT ![Head(main.todo)] = "loop"]
                 /\ main' = [main EXCEPT !.futures = @ \cup {Head(main.todo)},
                                         !.todo = Tail(@)]
            ELSE /\ main' = [main EXCEPT !.pc = "finally", !.todo = <<>>]
                 /\ UNCHANGED pc
    /\ UNCHANGED <<bot_files, budget, shutdown_requested, current_processes, procs,
                   restart_count, exit_code, delay, steps, wd, pump, frames, hist>>

\* Lines 249-253: future.result() returns when that supervision path has ended.
Result ==
    /\ MainRuns
    /\ main.pc = "result"
    /\ IF main.todo = <<>>
       THEN main' = [main EXCEPT !.pc = "finally"]
       ELSE /\ pc[Head(main.todo)] = "stopped"
            /\ main' = [main EXCEPT !.todo = Tail(@)]
    /\ UNCHANGED <<bot_files, budget, shutdown_requested, current_processes, procs, pc,
                   restart_count, exit_code, delay, steps, wd, pump, frames, hist>>

\* An activation of stop_all_processes, called by signal_handler or by run.
Frame(fn, at) == [fn |-> fn, pc |-> at, keys |-> <<>>, process |-> 0]

\* Line 258: the finally clause calls stop_all_processes.
Finally ==
    /\ MainRuns
    /\ main.pc = "finally"
    /\ frames' = <<Frame("run", "keys")>>
    /\ main' = [main EXCEPT !.pc = "executor_shutdown"]
    /\ UNCHANGED <<bot_files, budget, shutdown_requested, current_processes, procs, pc,
                   restart_count, exit_code, delay, steps, wd, pump, hist>>

MutWorkersJoined == TRUE
\* executor.shutdown(wait=True) (line 259) blocks until every submitted
\* supervision path has ended.
WorkersJoined == \A b \in main.futures : pc[b] = "stopped"

\* Line 259: executor.shutdown(wait=True) returns; then run() returns.
ExecutorShutdown ==
    /\ MainRuns
    /\ main.pc = "executor_shutdown"
    /\ WorkersJoined
    /\ main' = [main EXCEPT !.pc = "returned"]
    /\ UNCHANGED <<bot_files, budget, shutdown_requested, current_processes, procs, pc,
                   restart_count, exit_code, delay, steps, wd, pump, frames, hist>>

\* ------------------------------- signal_handler, stop_all, stop_process
\* A SIGINT or SIGTERM arrives (lines 32-33): Python runs signal_handler on
\* the main thread, on top of what that thread is doing.
Signal ==
    /\ budget.signals > 0
    /\ main.pc # "returned"
    /\ budget' = [budget EXCEPT !.signals = @ - 1]
    /\ frames' = Append(frames, Frame("signal_handler", "flag"))
    /\ UNCHANGED <<bot_files, shutdown_requested, current_processes, procs, pc,
                   restart_count, exit_code, delay, steps, wd, pump, main, hist>>

Top == Last(frames)
At(at) == frames # <<>> /\ Top.pc = at
Goto(at) == frames' = SetLast(frames, [Top EXCEPT !.pc = at])
\* stop_process returns: the loop of line 220 takes the next key, or
\* stop_all_processes (and the handler with it) returns.
NextKey == frames' = IF Len(Top.keys) > 1
                     THEN SetLast(frames, [Top EXCEPT !.keys = Tail(@), !.pc = "lookup",
                                                      !.process = 0])
                     ELSE SubSeq(frames, 1, Len(frames) - 1)

\* Line 75: self.shutdown_requested = True
SetShutdown ==
    /\ At("flag")
    /\ shutdown_requested' = TRUE
    /\ Goto("keys")
    /\ hist' = [hist EXCEPT !.caught = [b \in AllBots |->
                    @[b] \/ (~shutdown_requested /\ pc[b] \in {"backoff", "sleep"})]]
    /\ UNCHANGED <<bot_files, budget, current_processes, procs, pc,
                   restart_count, exit_code, delay, steps, wd, pump, main>>

\* Line 220: list(self.current_processes.keys())
StopAll ==
    /\ At("keys")
    /\ LET keys == Keys(current_processes) IN
       frames' = IF keys = <<>> THEN SubSeq(frames, 1, Len(frames) - 1)
                 ELSE SetLast(frames, [Top EXCEPT !.keys = keys, !.pc = "lookup"])
    /\ UNCHANGED <<bot_files, budget, shutdown_requested, current_processes, procs, pc,
                   restart_count, exit_code, delay, steps, wd, pump, main, hist>>

MutGracefulStop == "kill"
\* The first request stop_process makes of a running child: terminate (line 206).
GracefulStop == "terminate"

\* Lines 203-204: process = self.current_processes.get(...); only a process
\* that is still running is stopped.
Lookup ==
    /\ At("lookup")
    /\ LET b == Head(Top.keys)
           k == Get(current_processes, b) IN
       IF k # 0 /\ Running(b, k)
       THEN frames' = SetLast(frames, [Top EXCEPT !.process = k, !.pc = GracefulStop])
       ELSE NextKey
    /\ UNCHANGED <<bot_files, budget, shutdown_requested, current_processes, procs, pc,
                   restart_count, exit_code, delay, steps, wd, pump, main, hist>>

\* Line 206: process.terminate()
Terminate ==
    /\ At("terminate")
    /\ LET b == Head(Top.keys)
           k == Top.process IN
       /\ procs' = [procs EXCEPT ![b][k] = Terminated(@)]
       /\ hist' = [hist EXCEPT !.proc[b][k].stopTerms = @ + 1]
    /\ Goto("wait")
    /\ UNCHANGED <<bot_files, budget, shutdown_requested, current_processes, pc,
                   restart_count, exit_code, delay, steps, wd, pump, main>>

\* Line 207: process.wait(timeout=10) returns: the child has ended.
WaitGrace ==
    /\ At("wait")
    /\ ~Running(Head(Top.keys), Top.process)
    /\ Goto("delete")
    /\ UNCHANGED <<bot_files, budget, shutdown_requested, current_processes, procs, pc,
                   restart_count, exit_code, delay, steps, wd, pump, main, hist>>

\* Lines 207-208: the child is still running after 10 seconds and wait
\* raises TimeoutExpired.
WaitTimeout ==
    /\ At("wait")
    /\ Running(Head(Top.keys), Top.process)
    /\ Goto("kill")
    /\ hist' = [hist EXCEPT !.proc[Head(Top.keys)][Top.process].timedOut = TRUE]
    /\ UNCHANGED <<bot_files, budget, shutdown_requested, current_processes, procs, pc,
                   restart_count, exit_code, delay, steps, wd, pump, main>>

\* Line 210: process.kill()
Kill ==
    /\ At("kill")
    /\ LET b == Head(Top.keys)
           k == Top.process IN
       /\ procs' = [procs EXCEPT ![b][k] = Killed(@)]
       /\ hist' = [hist EXCEPT !.proc[b][k].kills = @ + 1]
    /\ Goto("reap")
    /\ UNCHANGED <<bot_files, budget, shutdown_requested, current_processes, pc,
                   restart_count, exit_code, delay, steps, wd, pump, main>>

\* Line 211: process.wait() returns once the child has ended.
Reap ==
    /\ At("reap")
    /\ ~Running(Head(Top.keys), Top.process)
    /\ Goto("delete")
    /\ UNCHANGED <<bot_files, budget, shutdown_requested, current_processes, procs, pc,
                   restart_count, exit_code, delay, steps, wd, pump, main, hist>>

\* Lines 214-216: the finally clause removes the registry entry.
Delete ==
    /\ At("delete")
    /\ current_processes' = Del(current_processes, Head(Top.keys))
    /\ NextKey
    /\ UNCHANGED <<bot_files, budget, shutdown_requested, procs, pc,
                   restart_count, exit_code, delay, steps, wd, pump, main, hist>>

\* ------------------------------------------------------------ the system
\* The executions explored, each an assignment of the environment's budget:
\* one bot whose program may fail at every run, with no signal and no sample
\* above the ceiling (the restart policy on its own); one bot with one
\* signal, MaxCrashes abnormal exits and MaxOvers samples above the ceiling;
\* one bot with MaxSignals signals; two bots with one signal; one bot that
\* fails once and writes MaxLines lines of output; one bot that fails once
\* and is sampled above the ceiling MaxOvers times; one bot with one signal
\* and nothing else.  Spec explores the executions of one bot, GroupSpec
\* those of two.
\*
\* The reader threads of monitor_output write no variable that any other
\* thread reads, so Spec, GroupSpec and the fair specifications leave their
\* steps out (the readers are started and never scheduled) and PumpSpec
\* explores them.
RestartScenario == [bots |-> {1}, crashes |-> MAX_RESTARTS, signals |-> 0, overs |-> 0,
    lines |-> 0]
ShutdownScenario == [bots |-> {1}, crashes |-> MaxCrashes, signals |-> 1, overs |-> MaxOvers,
    lines |-> 0]
SignalsScenario == [bots |-> {1}, crashes |-> 0, signals |-> MaxSignals, overs |-> 0,
    lines |-> 0]
GroupScenario == [bots |-> AllBots, crashes |-> 0, signals |-> 1, overs |-> 0,
    lines |-> 0]
PumpScenario == [bots |-> {1}, crashes |-> 1, signals |-> 0, overs |-> 0,
    lines |-> MaxLines]
WatchScenario == [bots |-> {1}, crashes |-> 1, signals |-> 0, overs |-> MaxOvers,
    lines |-> 0]
StopScenario == [bots |-> {1}, crashes |-> 0, signals |-> 1, overs |-> 0,
    lines |-> 0]
Scenarios == {RestartScenario, ShutdownScenario, SignalsScenario}

InitOf(scenarios) ==
    /\ \E s \in scenarios :
        /\ bot_files = s.bots
        /\ budget = [crashes |-> s.crashes, signals |-> s.signals, overs |-> s.overs,
                     lines |-> s.lines]
    /\ shutdown_requested = FALSE
    /\ current_processes = <<>>
    /\ procs = [b \in AllBots |-> <<>>]
    /\ pc = [b \in AllBots |-> "idle"]
    /\ restart_count = [b \in AllBots |-> 0]
    /\ exit_code = [b \in AllBots |-> <<>>]
    /\ delay = [b \in AllBots |-> 0]
    /\ steps = [b \in AllBots |-> 0]
    /\ wd = [b \in AllBots |-> <<>>]
    /\ pump = [b \in AllBots |-> <<>>]
    /\ main = [pc |-> "validate", valid_files |-> {}, todo |-> <<>>, futures |-> {}]
    /\ frames = <<>>
    /\ hist = [proc |-> [b \in AllBots |-> <<>>],
               slept |-> [b \in AllBots |-> 0],
               caught |-> [b \in AllBots |-> FALSE],
               lateSleeps |-> [b \in AllBots |-> 0],
               missing |-> {}]

Init == InitOf(Scenarios)

Supervise(b) ==
    \/ LoopCheck(b)
    \/ StartProcess(b)
    \/ Register(b)
    \/ StartMonitors(b)
    \/ Wait(b)
    \/ Evaluate(b)
    \/ BackoffCheck(b)
    \/ BackoffSleep(b)

Watchdog(b, k) ==
    /\ k \in DOMAIN wd[b]
    /\ \/ WatchdogCheck(b, k)
       \/ WatchdogSample(b, k)
       \/ WatchdogTerminate(b, k)

Reader(b, k, s) ==
    /\ k \in DOMAIN pump[b]
    /\ \/ ReaderCheck(b, k, s)
       \/ ReaderRead(b, k, s)

\* A child that was sent SIGTERM or SIGKILL ends.
SignalledExit(b, k) ==
    /\ k \in DOMAIN procs[b]
    /\ procs[b][k].term \/ procs[b][k].kill
    /\ \E c \in ExitChoices(procs[b][k]) : ProcessExit(b, k, c)

Run ==
    \/ Validate
    \/ Submit
    \/ Result
    \/ Finally
    \/ ExecutorShutdown

StopProcesses ==
    \/ SetShutdown
    \/ StopAll
    \/ Lookup
    \/ Terminate
    \/ WaitGrace
    \/ WaitTimeout
    \/ Kill
    \/ Reap
    \/ Delete

Next ==
    \/ \E b \in AllBots : Supervise(b)
    \/ \E b \in AllBots : \E k \in 1..MAX_RESTARTS : Watchdog(b, k)
    \/ \E b \in AllBots : \E k \in 1..Len(procs[b]) : \E c \in ExitChoices(procs[b][k]) : ProcessExit(b, k, c)
    \/ Run
    \/ Signal
    \/ StopProcesses

Spec == Init /\ [][Next]_vars

\* The steps of the output pumps: the children write to their pipes and the
\* reader threads run.
Pump ==
    \/ \E b \in AllBots : \E k \in 1..MAX_RESTARTS : \E s \in Streams : Write(b, k, s)
    \/ \E b \in AllBots : \E k \in 1..MAX_RESTARTS : \E s \in Streams : Reader(b, k, s)

\* Every thread keeps being scheduled, and a child that was sent SIGTERM or
\* SIGKILL ends; a child left alone may run for ever.
Fairness ==
    /\ \A b \in AllBots : WF_vars(Supervise(b))
    /\ \A b \in AllBots : \A k \in 1..MAX_RESTARTS : WF_vars(Watchdog(b, k))
    /\ \A b \in AllBots : \A k \in 1..MAX_RESTARTS : WF_vars(SignalledExit(b, k))
    /\ WF_vars(Run)
    /\ WF_vars(StopProcesses)

\* The runner constructed with two bot files (and, beside it, with one).
GroupSpec == InitOf({ShutdownScenario, GroupScenario}) /\ [][Next]_vars

\* One bot, one signal, under fair scheduling.
FairSpec == InitOf({ShutdownScenario}) /\ [][Next]_vars /\ Fairness

\* A child that was sent SIGKILL ends.
KilledExit(b, k) ==
    /\ k \in DOMAIN procs[b]
    /\ procs[b][k].kill
    /\ \E c \in ExitChoices(procs[b][k]) : ProcessExit(b, k, c)

\* Every thread keeps being scheduled and a child that was sent SIGKILL
\* ends; a child may ignore SIGTERM (a bot program can install a handler for
\* it) and may run for ever.
StubbornFairness ==
    /\ \A b \in AllBots : WF_vars(Supervise(b))
    /\ \A b \in AllBots : \A k \in 1..MAX_RESTARTS : WF_vars(Watchdog(b, k))
    /\ \A b \in AllBots : \A k \in 1..MAX_RESTARTS : WF_vars(KilledExit(b, k))
    /\ WF_vars(Run)
    /\ WF_vars(StopProcesses)

\* One bot under fair scheduling, its program free to ignore SIGTERM.
StubbornSpec == InitOf({ShutdownScenario}) /\ [][Next]_vars /\ StubbornFairness

\* One bot with its output pumps running: restarted after a failure while
\* it writes output, or while it exceeds the memory ceiling, or stopped by a
\* signal.
PumpSpec == InitOf({PumpScenario, WatchScenario, StopScenario}) /\ [][Next \/ Pump]_vars

\* ====================================================================
\* Properties
\* ====================================================================
Instances(b) == 1..Len(procs[b])
\* The supervision path of b gave up: the loop ended because restart_count
\* reached MAX_RESTARTS ('Max restarts reached').
GaveUp(b) == pc[b] = "stopped" /\ restart_count[b] = MAX_RESTARTS
\* Every run of b so far ended with the restart-eligible status 137.
AlwaysFailed(b) == \A k \in Instances(b) : procs[b][k].returncode = <<137>>

\* C1: a worker whose every run ends with a restart-eligible status, with no
\* shutdown requested, is spawned MAX_RESTARTS + 1 = 6 times, its restarts
\* preceded by backoffs of 10, 20, 30, 40 and 50 one-second steps in that
\* order, before it is stopped with 'Max restarts reached'.
C1_FiveRestartsBeforeGivingUp ==
    \A b \in AllBots :
        (GaveUp(b) /\ AlwaysFailed(b) /\ ~shutdown_requested) =>
            /\ Len(procs[b]) = MAX_RESTARTS + 1
            /\ \A k \in 1..MAX_RESTARTS :
                hist.proc[b][k + 1].sleeps = RESTART_DELAY * k

\* What the code does in every case of C1: MAX_RESTARTS spawns in all, that
\* is MAX_RESTARTS - 1 restarts, after backoffs of 10, 20, 30 and 40 steps.
C1_CodeGivesUpAfterFourRestarts ==
    \A b \in AllBots :
        (GaveUp(b) /\ AlwaysFailed(b) /\ ~shutdown_requested) =>
            /\ Len(procs[b]) = MAX_RESTARTS
            /\ \A k \in 1..(MAX_RESTARTS - 1) :
                hist.proc[b][k + 1].sleeps = RESTART_DELAY * k

\* The case of C1 as the code runs it: the worker has given up after five
\* spawns and backoffs of 10, 20, 30 and 40 steps.
C1_GaveUpAfterFourRestarts ==
    \E b \in AllBots :
        /\ GaveUp(b) /\ AlwaysFailed(b) /\ ~shutdown_requested
        /\ Len(procs[b]) = MAX_RESTARTS
        /\ \A k \in 1..(MAX_RESTARTS - 1) :
            hist.proc[b][k + 1].sleeps = RESTART_DELAY * k

\* C2: the restart counter of every worker stays within 0..MAX_RESTARTS,
\* never decreases, and once it equals MAX_RESTARTS the worker spawns no
\* further process.
C2_CounterBounded ==
    /\ [](\A b \in AllBots : restart_count[b] \in 0..MAX_RESTARTS)
    /\ [][\A b \in AllBots : restart_count'[b] >= restart_count[b]]_vars
    /\ [][\A b \in AllBots : restart_count[b] = MAX_RESTARTS =>
                                Len(procs'[b]) = Len(procs[b])]_vars

C2_Witness ==
    \E b \in AllBots : GaveUp(b) /\ Len(procs[b]) = MAX_RESTARTS

\* The latest child of b has ended with status c.
EndedWith(b, c) == procs[b] # <<>> /\ Last(procs[b]).returncode = <<c>>

\* C3: once a worker's child has ended with status 0 the restart counter
\* stays as it was, no further child is spawned, the path only goes on to
\* wait for and evaluate that child, and the evaluation ends it (Stopped).
C3_CleanExitStops ==
    [][\A b \in AllBots : EndedWith(b, 0) =>
            /\ restart_count'[b] = restart_count[b]
            /\ Len(procs'[b]) = Len(procs[b])
            /\ pc'[b] \in {"register", "monitor", "wait", "evaluate", "stopped"}
            /\ pc[b] \in {"evaluate", "stopped"} => pc'[b] \in {pc[b], "stopped"}]_vars

C3_Witness ==
    \E b \in AllBots :
        /\ EndedWith(b, 0)
        /\ pc[b] = "stopped"
        /\ restart_count[b] = MAX_RESTARTS - 1

\* C4: when shutdown is requested while a worker is in its backoff, the
\* worker finishes at most one more one-second sleep, spawns no further
\* process and reaches Stopped.
C4_ShutdownInterruptsBackoff ==
    /\ [](\A b \in AllBots : hist.caught[b] => hist.lateSleeps[b] <= 1)
    /\ [][\A b \in AllBots : hist.caught[b] => Len(procs'[b]) = Len(procs[b])]_vars
    /\ \A b \in AllBots : hist.caught[b] ~> pc[b] = "stopped"

\* Shutdown came during the last sleep of a backoff, and the worker stopped.
C4_Witness ==
    \E b \in AllBots :
        /\ hist.caught[b]
        /\ pc[b] = "stopped"
        /\ hist.lateSleeps[b] = 1
        /\ steps[b] = delay[b]

\* C5: the child spawned as a worker's k-th restart was preceded by exactly
\* RESTART_DELAY * k backoff sleep steps.
C5_LinearBackoff ==
    \A b \in AllBots : \A j \in Instances(b) :
        hist.proc[b][j].sleeps = RESTART_DELAY * hist.proc[b][j].attempt

C5_Witness ==
    \E b \in AllBots : \E j \in Instances(b) :
        /\ hist.proc[b][j].attempt = MAX_RESTARTS - 1
        /\ hist.proc[b][j].sleeps = RESTART_DELAY * (MAX_RESTARTS - 1)
        /\ ~shutdown_requested

\* Some child of the group is running.
SomeChildAlive == \E b \in AllBots : \E k \in Instances(b) : procs[b][k].alive
\* Every supervision path that was started has ended.
AllStopped == \A b \in AllBots : pc[b] \in {"idle", "stopped"}

\* C6: under fair scheduling, with every child that is sent SIGTERM or
\* SIGKILL ending, a shutdown request leads to every worker Stopped, no child
\* alive and run() returned.
C6_ShutdownCompletes ==
    shutdown_requested ~> (AllStopped /\ ~SomeChildAlive /\ main.pc = "returned")

\* C7: no supervision path spawns a process once shutdown_requested is set.
C7_NoSpawnAfterShutdown ==
    \A b \in AllBots : \A k \in Instances(b) : ~hist.proc[b][k].afterShutdown

\* C8: when run() has returned, every supervision path it started has ended
\* and no child of the group is alive, whether it returns after its workers
\* finished, after a shutdown signal or after a failed submit.
C8_RunReturnsAfterAllStopped ==
    main.pc = "returned" =>
        /\ \A b \in main.futures : pc[b] = "stopped"
        /\ \A b \in AllBots \ main.futures : pc[b] = "idle" /\ procs[b] = <<>>
        /\ ~SomeChildAlive

\* run() has returned after an error of the orchestration loop (the second
\* submit raised) with the first worker started and spawned.
C8_Witness ==
    /\ main.pc = "returned"
    /\ main.futures # {}
    /\ main.futures # main.valid_files
    /\ \E b \in main.futures : procs[b] # <<>>

\* C9: stop_process calls kill() on a process only after it has called
\* terminate() on it and its wait of 10 seconds has timed out with the
\* process still running; a process whose wait returned is not killed.
C9_TerminateBeforeKill ==
    /\ \A b \in AllBots : \A k \in Instances(b) :
        hist.proc[b][k].kills > 0 =>
            hist.proc[b][k].stopTerms > 0 /\ hist.proc[b][k].timedOut
    /\ \A i \in DOMAIN frames :
        frames[i].pc \in {"wait", "kill", "reap", "delete"} =>
            hist.proc[Head(frames[i].keys)][frames[i].process].stopTerms > 0
    /\ \A i \in DOMAIN frames :
        frames[i].pc \in {"kill", "reap"} =>
            hist.proc[Head(frames[i].keys)][frames[i].process].timedOut

\* With two workers, one ended with status 0 and the other was terminated,
\* outlived the grace period and was killed.
C9_Witness ==
    /\ bot_files = AllBots
    /\ \E b \in AllBots : EndedWith(b, 0) /\ hist.proc[b][1].stopTerms = 0
    /\ \E b \in AllBots :
        /\ hist.proc[b] # <<>>
        /\ hist.proc[b][1].stopTerms = 1
        /\ hist.proc[b][1].kills = 1
        /\ EndedWith(b, SIGKILL_CODE)

\* C10: the watchdog of a process instance calls terminate() exactly once
\* after a sample above the ceiling and then takes no further sample; it
\* never calls terminate() without such a sample.
C10_WatchdogOneShot ==
    \A b \in AllBots : \A k \in Instances(b) :
        LET h == hist.proc[b][k] IN
        /\ h.samples = 0
        /\ h.wdTerms = (IF h.over /\ wd[b][k] = "done" THEN 1 ELSE 0)
        /\ h.over => wd[b][k] \in {"terminate", "done"}
        /\ wd[b][k] = "terminate" => h.over

C10_Witness ==
    \E b \in AllBots : \E k \in Instances(b) :
        /\ hist.proc[b][k].over
        /\ hist.proc[b][k].wdTerms = 1
        /\ wd[b][k] = "done"

\* C11: a bot file that does not exist at validation is excluded: its path is
\* never started, no process is spawned for it and nothing is registered for
\* it, while every file that exists is started once the submissions are
\* made; with no file existing, run() returns at once with no path started,
\* no process spawned and no stop_all_processes activation.
C11_MissingFilesExcluded ==
    /\ \A b \in hist.missing :
        pc[b] = "idle" /\ procs[b] = <<>> /\ Get(current_processes, b) = 0
    /\ main.pc = "result" => \A b \in bot_files \ hist.missing : pc[b] # "idle"
    /\ (main.pc # "validate" /\ hist.missing = bot_files) =>
        /\ main.pc = "returned"
        /\ frames = <<>>
        /\ \A b \in AllBots : pc[b] = "idle" /\ procs[b] = <<>>

\* One of two files is missing and the other one's process is being waited for.
C11_Witness ==
    /\ bot_files = AllBots
    /\ hist.missing = {1}
    /\ pc[1] = "idle"
    /\ pc[2] = "wait" /\ Len(procs[2]) = 1
    /\ main.pc = "result"

\* The worker b leaves the evaluation of an exit status in this step.
Evaluated(b) == pc[b] = "evaluate" /\ pc'[b] # "evaluate"
\* The statuses the specification names manual terminations.
ManualCodes == {130, 143, SIGTERM_CODE}

\* C12: a manual-termination status (130, 143, -15) stops the worker with
\* no restart and no increment of the restart counter; every other non-zero
\* status, while fewer than MAX_RESTARTS restarts were made and shutdown is
\* not requested, increments the counter and begins the backoff of a restart.
C12_ManualStopsOthersRestart ==
    [][\A b \in AllBots : Evaluated(b) =>
        LET c == exit_code[b][1] IN
        /\ c \in ManualCodes =>
            pc'[b] = "stopped" /\ restart_count'[b] = restart_count[b]
        /\ (c \notin ManualCodes \cup {0} /\ restart_count[b] < MAX_RESTARTS
                /\ ~shutdown_requested) =>
            pc'[b] = "backoff" /\ restart_count'[b] = restart_count[b] + 1]_vars

\* What the code does in the cases of C12: the same, except that the failure
\* which brings the counter to MAX_RESTARTS is not followed by a restart.
C12_CodeRestartsBelowLastAttempt ==
    [][\A b \in AllBots : Evaluated(b) =>
        LET c == exit_code[b][1] IN
        /\ c \in ManualCodes =>
            pc'[b] = "stopped" /\ restart_count'[b] = restart_count[b]
        /\ c \notin ManualCodes \cup {0} =>
            /\ restart_count'[b] = restart_count[b] + 1
            /\ pc'[b] = IF restart_count[b] + 1 < MAX_RESTARTS THEN "backoff"
                        ELSE "loop"]_vars

\* The failing case of C12: a status 137 was evaluated after four restarts,
\* with no shutdown requested, and the path is on its way out of the loop.
C12_FifthFailureNotRestarted ==
    \E b \in AllBots :
        /\ pc[b] = "loop" /\ restart_count[b] = MAX_RESTARTS
        /\ Len(procs[b]) = MAX_RESTARTS
        /\ Last(procs[b]).returncode = <<137>>
        /\ ~shutdown_requested

\* The worker b makes a spawn attempt that fails in this step.
SpawnFails(b) == pc[b] = "start" /\ pc'[b] # "start" /\ procs'[b] = procs[b]

\* C13: a failed spawn, the first or a later one, takes the worker directly
\* to Stopped: the restart counter is unchanged, nothing is registered, no
\* watchdog and no output reader is started, and a stopped worker never
\* spawns again.
C13_SpawnFailureStops ==
    [][\A b \in AllBots :
        /\ SpawnFails(b) =>
            /\ pc'[b] = "stopped"
            /\ restart_count'[b] = restart_count[b]
            /\ current_processes' = current_processes
            /\ wd' = wd /\ pump' = pump
        /\ pc[b] = "stopped" => pc'[b] = "stopped" /\ Len(procs'[b]) = Len(procs[b])]_vars

\* A spawn failed at the first restart: the worker is stopped after the
\* whole backoff that followed its first process' failure, with no shutdown.
C13_Witness ==
    \E b \in AllBots :
        /\ pc[b] = "stopped" /\ ~shutdown_requested
        /\ Len(procs[b]) = 1 /\ Last(procs[b]).returncode = <<137>>
        /\ restart_count[b] = 1 /\ hist.slept[b] = RESTART_DELAY
        /\ Len(wd[b]) = 1

\* The instances of b that are alive.
Live(b) == {k \in Instances(b) : procs[b][k].alive}

\* C14: every worker has at most one live process, which is its latest one,
\* and it has none outside the stretch from the spawn to the return of
\* process.wait(): the path reaches its next spawn only with every earlier
\* process ended and its exit status collected.
C14_OneLiveProcessPerWorker ==
    \A b \in AllBots :
        /\ Cardinality(Live(b)) <= 1
        /\ Live(b) \subseteq {Len(procs[b])}
        /\ pc[b] \notin {"register", "monitor", "wait"} =>
            \A k \in Instances(b) : ~procs[b][k].alive /\ procs[b][k].returncode # <<>>

\* A worker's second process is alive, its first one having failed, while
\* the watchdog of the first one has not ended yet.
C14_Witness ==
    \E b \in AllBots :
        /\ Len(procs[b]) = 2 /\ Live(b) = {2}
        /\ procs[b][1].returncode = <<137>>
        /\ wd[b][1] = "check"

\* C15: however many signals arrive, also one that arrives while an earlier
\* one is being handled, each process is sent at most one terminate() by
\* the shutdown routine (stop_process).
C15_OneTerminatePerProcess ==
    \A b \in AllBots : \A k \in Instances(b) : hist.proc[b][k].stopTerms <= 1

\* The other half of C15, which the code keeps: shutdown_requested, once
\* set, is never cleared.
C15_FlagNeverCleared == [][shutdown_requested => shutdown_requested']_vars

\* The failing case of C15: two handlers are on the main thread and the
\* second has called terminate() on the process the first is waiting for.
C15_TerminatedTwice ==
    \E b \in AllBots : \E k \in Instances(b) :
        /\ hist.proc[b][k].stopTerms = 2
        /\ Len(frames) = 2
        /\ frames[1].fn = "signal_handler" /\ frames[2].fn = "signal_handler"

\* C16: under fair scheduling, with every child that is sent SIGKILL ending,
\* a process the watchdog has called terminate() on is eventually no longer
\* alive, also when its program ignores SIGTERM.
C16_WatchdogTerminateEscalates ==
    \A b \in AllBots : \A k \in 1..MAX_RESTARTS :
        (k \in Instances(b) /\ hist.proc[b][k].wdTerms > 0)
            ~> (k \in Instances(b) /\ ~procs[b][k].alive)

\* What the code does in the case of C16: only stop_process ever calls
\* kill(), so a process is sent SIGKILL only after a terminate() made by
\* the shutdown routine and a timed-out wait.
C16_CodeKillsOnlyInStopProcess ==
    \A b \in AllBots : \A k \in Instances(b) :
        /\ hist.proc[b][k].kills > 0 =>
            hist.proc[b][k].stopTerms > 0 /\ hist.proc[b][k].timedOut
        /\ procs[b][k].kill => hist.proc[b][k].kills > 0

\* The failing case of C16: the watchdog has called terminate() and ended,
\* the process is still alive with the SIGTERM pending and nothing but the
\* path's process.wait() is left to happen.
C16_TerminatedAndLeftAlone ==
    \E b \in AllBots : \E k \in Instances(b) :
        /\ hist.proc[b][k].wdTerms = 1 /\ wd[b][k] = "done"
        /\ procs[b][k].alive /\ procs[b][k].term /\ ~procs[b][k].kill
        /\ pc[b] = "wait" /\ frames = <<>> /\ ~shutdown_requested

\* C17: once every supervision path has ended and run() has returned, the
\* registry current_processes is empty, the entry of each process having
\* been removed when the process ended.
C17_RegistryEmptyAtEnd ==
    (AllStopped /\ main.pc = "returned") => current_processes = <<>>

\* What the code does in the case of C17: an entry leaves the registry only
\* at the end of a stop_process that found a process of that worker alive
\* and called terminate() on it.
C17_CodeDeletesOnlyInStopProcess ==
    [][\A b \in AllBots :
        (Get(current_processes, b) # 0 /\ Get(current_processes', b) = 0) =>
            /\ At("delete") /\ Head(Top.keys) = b
            /\ hist.proc[b][Top.process].stopTerms > 0]_vars

\* The failing case of C17: run() has returned after its only worker's
\* process exited with status 0, and the registry still holds that process.
C17_StaleEntryAtEnd ==
    \E b \in AllBots :
        /\ AllStopped /\ main.pc = "returned"
        /\ Get(current_processes, b) = 1
        /\ procs[b] = <<[alive |-> FALSE, returncode |-> <<0>>, term |-> FALSE, kill |-> FALSE]>>

\* The latest process of b was ended by the SIGTERM of the watchdog's
\* terminate(), made after a memory sample above the ceiling.
EndedByWatchdog(b) ==
    /\ Len(procs[b]) > 0
    /\ hist.proc[b][Len(procs[b])].over
    /\ hist.proc[b][Len(procs[b])].wdTerms > 0
    /\ hist.proc[b][Len(procs[b])].stopTerms = 0
    /\ Last(procs[b]).returncode = <<SIGTERM_CODE>>

\* C18: a worker whose process the watchdog terminated for exceeding the
\* memory ceiling is restarted: with restart attempts left and no shutdown
\* requested, its path does not end with that process as its last one.
C18_WatchdogTerminationRestarts ==
    \A b \in AllBots :
        (EndedByWatchdog(b) /\ restart_count[b] + 1 < MAX_RESTARTS /\ ~shutdown_requested)
            => pc[b] # "stopped"

\* What the code does in the case of C18: the status -15 of a process ended
\* by terminate() is a manual stop, whoever called terminate(), so the path
\* ends without touching the restart counter.
C18_CodeStopsAfterWatchdogTermination ==
    [][\A b \in AllBots :
        (Evaluated(b) /\ EndedByWatchdog(b)) =>
            pc'[b] = "stopped" /\ restart_count'[b] = restart_count[b]]_vars

\* The failing case of C18: the first process of a worker was ended by the
\* watchdog's terminate() and the worker is stopped, never restarted.
C18_StoppedAfterWatchdogTermination ==
    \E b \in AllBots :
        /\ EndedByWatchdog(b) /\ Len(procs[b]) = 1
        /\ pc[b] = "stopped" /\ restart_count[b] = 0 /\ ~shutdown_requested

\* A watchdog thread w and a pair of reader threads p: all started, none started.
AllStarted(w, p) == w # "none" /\ \A s \in Streams : p[s].pc # "none"
NoneStarted(w, p) == w = "none" /\ \A s \in Streams : p[s].pc = "none"
\* The monitor threads of the k-th process of b are all started.
MonitorsStarted(b, k) == AllStarted(wd[b][k], pump[b][k])

\* C19: within one worker the steps for each process come in this order: the
\* spawn succeeds; the process is registered; its two output readers and
\* its watchdog are started, for no process but the one just spawned; the
\* blocking wait begins; the exit status is evaluated only after the wait
\* returned the status of the ended process.
C19_SpawnRegisterMonitorWaitEvaluate ==
    [][\A b \in AllBots :
        LET n == Len(procs[b]) IN
        /\ Len(procs'[b]) # n =>
            /\ pc[b] = "start" /\ pc'[b] = "register"
            /\ Len(procs'[b]) = n + 1
            /\ NoneStarted(wd'[b][n + 1], pump'[b][n + 1])
        /\ (pc[b] # "register" /\ pc'[b] = "register") => Len(procs'[b]) = n + 1
        /\ (pc[b] # "monitor" /\ pc'[b] = "monitor") =>
            /\ pc[b] = "register"
            /\ Get(current_processes', b) = n
            /\ NoneStarted(wd'[b][n], pump'[b][n])
        /\ \A k \in DOMAIN wd[b] :
            (~MonitorsStarted(b, k) /\ ~NoneStarted(wd'[b][k], pump'[b][k])) =>
                pc[b] = "monitor" /\ k = n /\ AllStarted(wd'[b][n], pump'[b][n])
        /\ (pc[b] # "wait" /\ pc'[b] = "wait") =>
            pc[b] = "monitor" /\ AllStarted(wd'[b][n], pump'[b][n])
        /\ (pc[b] # "evaluate" /\ pc'[b] = "evaluate") =>
            /\ pc[b] = "wait"
            /\ ~procs[b][n].alive
            /\ exit_code'[b] = procs[b][n].returncode /\ exit_code'[b] # <<>>
        /\ Evaluated(b) => exit_code[b] = procs[b][n].returncode /\ exit_code[b] # <<>>
        /\ Len(wd'[b]) = Len(procs'[b]) /\ Len(pump'[b]) = Len(procs'[b])]_vars

\* The status of a worker's second process is about to be evaluated, after
\* its registration, the start of its monitors and its wait.
C19_Witness ==
    \E b \in AllBots :
        /\ Len(procs[b]) = 2 /\ pc[b] = "evaluate"
        /\ exit_code[b] = procs[b][2].returncode /\ exit_code[b] # <<>>
        /\ MonitorsStarted(b, 2)
        /\ Get(current_processes, b) = 2

\* The watchdog of the k-th process of b takes a step.
WatchdogSteps(b, k) == wd[b][k] # "none" /\ wd'[b][k] # wd[b][k]
\* The reader of pipe s of the k-th process of b takes a step.
ReaderSteps(b, k, s) == pump[b][k][s].pc # "none" /\ pump'[b][k][s].pc # pump[b][k][s].pc
\* Nothing of the processes of b other than the k-th changes in this step.
OthersUntouched(b, k) ==
    \A j \in DOMAIN procs[b] \ {k} :
        /\ procs'[b][j] = procs[b][j]
        /\ pump'[b][j] = pump[b][j]
        /\ hist'.proc[b][j] = hist.proc[b][j]

\* C20: the watchdog and the two output readers started for one process
\* are bound to it: their steps read, sample and terminate nothing but that
\* process, also when the worker has been restarted meanwhile, and each of
\* them ends at its next loop test once that process has ended.
C20_MonitorsBoundToInstance ==
    [][\A b \in AllBots : \A k \in DOMAIN wd[b] :
        /\ WatchdogSteps(b, k) =>
            /\ OthersUntouched(b, k)
            /\ (wd[b][k] \in {"check", "sample"} /\ ~procs[b][k].alive) =>
                wd'[b][k] = "done"
        /\ \A s \in Streams : ReaderSteps(b, k, s) =>
            /\ OthersUntouched(b, k)
            /\ (pump[b][k][s].pc = "check" /\ ~procs[b][k].alive) =>
                pump'[b][k][s].pc = "done"]_vars

\* A worker's second process is alive and untouched by any terminate();
\* the watchdog of its first process, asleep when the second was spawned,
\* has ended since, and so have the readers of the first process.
C20_Witness ==
    \E b \in AllBots :
        /\ Len(procs[b]) = 2 /\ procs[b][2].alive /\ ~procs[b][2].term
        /\ hist.proc[b][2].stale
        /\ wd[b][1] = "done"
        /\ \A s \in Streams : pump[b][1][s].pc = "done"
        /\ MonitorsStarted(b, 2)

====
